---- MODULE Spec2Model ----
(***************************************************************************)
(* The evaluation notebook lab-01-titan-cohere-embeddings-ragas.ipynb as a *)
(* state machine.  The state is the notebook's global namespace (datasets, *)
(* dfs, means, kb_names, means_df), the position of the run in the three   *)
(* evaluation cells (the datasets loop, the dfs loop, the means cell) and  *)
(* a log of the external calls made so far (retrieval, generation,         *)
(* scoring).  A Python exception that escapes a cell stops the run.        *)
(* summaries tells whether the means cell has run never, once, or again.   *)
(* frame holds the locals of the call in progress (execute_rag or          *)
(* evaluate) when the run is followed from one external call to the next.  *)
(* embedded logs the embeddings argument of every evaluate call.           *)
(***************************************************************************)
EXTENDS Integers, Sequences, FiniteSets, TLC

VARIABLES pc, i, datasets, dfs, means, kb_names, means_df,
          retrieved, generated, scored, error, summaries, frame, embedded

vars == <<pc, i, datasets, dfs, means, kb_names, means_df,
          retrieved, generated, scored, error, summaries, frame, embedded>>

(***************************************************************************)
(* Bounds of the model.                                                    *)
(***************************************************************************)
\* Number of (question, ground truth) pairs of the evaluation set.
NumQuestions == 2

(***************************************************************************)
(* Program constants and configuration.                                    *)
(***************************************************************************)
\* retrieval_config numberOfResults: the top-K of every retriever.
numberOfResults == 5

\* RunConfig(max_workers=2): the scorer invocations evaluate runs at a time.
max_workers == 2

\* The model behind llm_for_text_generation, the one qa_chain of every
\* backend generates with.
llm_for_text_generation == "anthropic.claude-3-haiku-20240307-v1:0"

\* The backends in registration order.  The ids are what create_knowledge_base
\* returned; the names are the keys display_names expects.
kbs ==
  << [knowledgeBaseId |-> "KB_TITAN",
      name |-> "amazon-titan-embedding-v2-knowledge-base"],
     [knowledgeBaseId |-> "KB_COHERE",
      name |-> "cohere-embed-english-v3-knowledge-base"] >>

\* The embedding model each knowledge base was created with: the model of
\* the embedding_model_arn given to create_knowledge_base.
embedding_model_of_kb ==
  [id \in {"KB_TITAN", "KB_COHERE"} |->
     IF id = "KB_TITAN" THEN "amazon.titan-embed-text-v2:0"
                        ELSE "cohere.embed-english-v3"]

\* Variant: the list of embedding models is written in the other order.
bedrock_embeddings_swapped ==
  << "cohere.embed-english-v3", "amazon.titan-embed-text-v2:0" >>

bedrock_embeddings ==
  << "amazon.titan-embed-text-v2:0", "cohere.embed-english-v3" >>

\* Variant: every retriever is built for the first backend's id.
retrievers_of_first_kb ==
  [k \in 1..Len(kbs) |-> [knowledge_base_id |-> kbs[1].knowledgeBaseId]]

retrievers ==
  [k \in 1..Len(kbs) |-> [knowledge_base_id |-> kbs[k].knowledgeBaseId]]

questions ==
  [q \in 1..NumQuestions |-> [text |-> "question", n |-> q]]

ground_truth ==
  [q \in 1..NumQuestions |-> [text |-> "ground_truth", n |-> q]]

\* The registered metrics.  The notebook registers six; evaluate and mean
\* treat every metric column alike, and the model carries the first two.
metrics == << "answer_relevancy", "context_precision" >>

numeric_cols == << "answer_relevancy", "context_precision" >>

display_names ==
  [n \in {"amazon-titan-embedding-v2-knowledge-base",
          "cohere-embed-english-v3-knowledge-base"} |->
     IF n = "amazon-titan-embedding-v2-knowledge-base"
       THEN "Amazon Titan Embedding"
       ELSE "Cohere English Embedding"]

KbIndex == 1..Len(kbs)

QuestionIndex == 1..NumQuestions

MetricSet == {metrics[j] : j \in 1..Len(metrics)}

(***************************************************************************)
(* Floats as pandas holds them: a number (a reduced fraction) or NaN.      *)
(***************************************************************************)
NaN == [isnan |-> TRUE, num |-> 0, den |-> 1]

Float(n, d) == [isnan |-> FALSE, num |-> n, den |-> d]

\* The values a scorer returns, as integers on the metric's scale.
ScoreValues == {0, 1}

\* The cells a result table can hold.
Cells == {Float(v, 1) : v \in ScoreValues} \cup {NaN}

\* The cells the scorers produce during a run: a value, or NaN for a failure
\* the evaluation library captures.
RunCells == {Float(1, 1), NaN}

RECURSIVE Gcd(_, _)
Gcd(a, b) ==
  IF b = 0 THEN a ELSE Gcd(b, a % b)

Reduced(n, d) ==
  IF n = 0 THEN Float(0, 1) ELSE Float(n \div Gcd(n, d), d \div Gcd(n, d))

(***************************************************************************)
(* Python dicts: insertion-ordered, a sequence of (key, value) items.      *)
(***************************************************************************)
DictHas(d, key) ==
  \E j \in 1..Len(d) : d[j].key = key

DictGet(d, key) ==
  d[CHOOSE j \in 1..Len(d) : d[j].key = key].value

\* Variant: the dict is created anew at every assignment.
DictSetFresh(d, key, value) ==
  << [key |-> key, value |-> value] >>

\* d[key] = value: an existing key keeps its position and gets the new value,
\* a new key is appended.
DictSet(d, key, value) ==
  IF DictHas(d, key)
    THEN [j \in 1..Len(d) |->
            IF d[j].key = key THEN [key |-> key, value |-> value] ELSE d[j]]
    ELSE Append(d, [key |-> key, value |-> value])

(***************************************************************************)
(* execute_rag: the record builder.                                        *)
(***************************************************************************)
RetrievalOutcomes == {"raised", "empty", "docs"}

GenerationOutcomes == {"raised", "answered"}

NoError == [kind |-> "none", kb |-> 0, q |-> 0, metric |-> ""]

\* No call of execute_rag or evaluate is in progress.
NoFrame == [fn |-> "none"]

\* Variant: every exception of invoke is swallowed (try/except around it).
FirstFailureSwallowed(ret, gen) ==
  0

\* Variant: only a retrieval exception escapes; a generation exception is
\* swallowed.
FirstRetrievalFailure(ret, gen) ==
  LET F == {q \in QuestionIndex : ret[q] = "raised"}
  IN IF F = {} THEN 0 ELSE CHOOSE q \in F : \A r \in F : q <= r

\* qa_chain.invoke(query) raises when the retrieval raises, and otherwise when
\* the generation raises; nothing in the loop catches it.  The index of the
\* first question whose invoke raises, 0 when none does.
FirstFailure(ret, gen) ==
  LET F == {q \in QuestionIndex : ret[q] = "raised" \/ gen[q] = "raised"}
  IN IF F = {} THEN 0 ELSE CHOOSE q \in F : \A r \in F : q <= r

\* [docs.page_content for docs in response["source_documents"]] of the
\* invocation for question q on backend k: the chunks the retrieval returned,
\* held as their origin and their number (none, or the top-K).
SourceDocuments(k, q, ret) ==
  [kb |-> k, q |-> q, len |-> IF ret = "docs" THEN numberOfResults ELSE 0]

\* Variant: the answers of a backend are generated with a model of its own.
ResultOfOwnModel(k, q) ==
  [kb |-> k, q |-> q, llm |-> bedrock_embeddings[k]]

\* response["result"] of the invocation for question q on backend k: the
\* answer, held as its origin and the model that generated it.
Result(k, q) ==
  [kb |-> k, q |-> q, llm |-> llm_for_text_generation]

\* The dict execute_rag returns when no invocation raised.
ExecuteRagData(k, ret) ==
  [question |-> questions,
   answer |-> [q \in QuestionIndex |-> Result(k, q)],
   contexts |-> [q \in QuestionIndex |-> SourceDocuments(k, q, ret[q])],
   ground_truth |-> ground_truth]

\* The retrieval calls of execute_rag(retrievers[k]): one per question up to
\* and including the first that raises.
RetrievalLog(ret, gen) ==
  LET f == FirstFailure(ret, gen)
  IN [q \in QuestionIndex |->
        IF f = 0 \/ q <= f THEN ret[q] ELSE "not_called"]

\* The generation calls: one per question whose retrieval returned, up to and
\* including the first invocation that raises.
GenerationLog(ret, gen) ==
  LET f == FirstFailure(ret, gen)
  IN [q \in QuestionIndex |->
        IF (f = 0 \/ q <= f) /\ ret[q] # "raised" THEN gen[q] ELSE "not_called"]

\* One iteration of "for retriever in retrievers": execute_rag, then
\* datasets[kb_id] = Dataset.from_dict(data).
DatasetsLoop ==
  /\ pc = "datasets_loop"
  /\ \E ret \in [QuestionIndex -> RetrievalOutcomes],
        gen \in [QuestionIndex -> GenerationOutcomes] :
       LET f == FirstFailure(ret, gen)
           kb_id == retrievers[i].knowledge_base_id
       IN /\ retrieved' = [retrieved EXCEPT ![i] = RetrievalLog(ret, gen)]
          /\ generated' = [generated EXCEPT ![i] = GenerationLog(ret, gen)]
          /\ IF f # 0
               THEN /\ pc' = "raised"
                    /\ error' = [kind |-> IF ret[f] = "raised"
                                            THEN "retrieval" ELSE "generation",
                                 kb |-> i, q |-> f, metric |-> ""]
                    /\ UNCHANGED <<i, datasets>>
               ELSE /\ datasets' = DictSet(datasets, kb_id, ExecuteRagData(i, ret))
                    /\ IF i < Len(retrievers)
                         THEN /\ i' = i + 1
                              /\ pc' = pc
                         ELSE /\ i' = 1
                              /\ pc' = "dfs_loop"
                    /\ UNCHANGED error
  /\ UNCHANGED <<dfs, means, kb_names, means_df, scored, summaries, frame,
                 embedded>>

(***************************************************************************)
(* evaluate_kb: the scorer dispatch.                                       *)
(***************************************************************************)
\* Variant: rows holding a failed cell are dropped (a dropna on the frame).
ToPandasDropFailed(dataset, out) ==
  SelectSeq([q \in 1..Len(dataset.question) |->
               [question |-> dataset.question[q], scores |-> out[q]]],
            LAMBDA row : \A m \in DOMAIN row.scores : ~row.scores[m].isnan)

\* Variant: one failed cell turns every cell of its row into NaN.
ToPandasRowNaN(dataset, out) ==
  [q \in 1..Len(dataset.question) |->
     [question |-> dataset.question[q],
      scores |-> IF \E m \in DOMAIN out[q] : out[q][m].isnan
                   THEN [m \in DOMAIN out[q] |-> NaN] ELSE out[q]]]

\* result.to_pandas(): one row per row of the dataset, in the dataset's order,
\* holding the dataset's columns and one column per metric.
ToPandas(dataset, out) ==
  [q \in 1..Len(dataset.question) |->
     [question |-> dataset.question[q], scores |-> out[q]]]

\* evaluate_kb(kb, embeddings, datasets, llm_for_evaluation) when evaluate
\* returns: out[q][m] is what the scorer of metric m produced for row q.
EvaluateKb(kb, embeddings, ds, out) ==
  [kb_id |-> kb.knowledgeBaseId,
   df |-> ToPandas(DictGet(ds, kb.knowledgeBaseId), out)]

\* One iteration of "for i, kb in enumerate(kbs)": evaluate_kb, then
\* dfs[kb_id] = df.  A scorer either returns a value, or fails in a way the
\* library captures (the cell is NaN), or fails in a way the library raises
\* out of evaluate; datasets[kb_id] raises KeyError for a missing key.  C is
\* the set of cells the scorers can produce.
DfsLoopStep(C) ==
  /\ pc = "dfs_loop"
  /\ IF ~DictHas(datasets, kbs[i].knowledgeBaseId)
       THEN /\ pc' = "raised"
            /\ error' = [kind |-> "KeyError", kb |-> i, q |-> 0, metric |-> ""]
            /\ UNCHANGED <<i, dfs, scored, embedded>>
       ELSE \/ \E out \in [QuestionIndex -> [MetricSet -> C]] :
                 LET r == EvaluateKb(kbs[i], bedrock_embeddings[i], datasets, out)
                 IN /\ dfs' = DictSet(dfs, r.kb_id, r.df)
                    /\ scored' = [scored EXCEPT ![i] = Append(@, out)]
                    /\ embedded' = [embedded EXCEPT ![i] = bedrock_embeddings[i]]
                    /\ IF i < Len(kbs)
                         THEN /\ i' = i + 1
                              /\ pc' = pc
                         ELSE /\ i' = 1
                              /\ pc' = "means_cell"
                    /\ UNCHANGED error
            \/ \E q \in QuestionIndex, m \in MetricSet :
                 /\ pc' = "raised"
                 /\ error' = [kind |-> "scorer", kb |-> i, q |-> q, metric |-> m]
                 /\ embedded' = [embedded EXCEPT ![i] = bedrock_embeddings[i]]
                 /\ UNCHANGED <<i, dfs, scored>>
  /\ UNCHANGED <<datasets, means, kb_names, means_df, retrieved, generated,
                 summaries, frame>>

\* The dfs loop in the run: the scorers return one value or fail.
DfsLoop ==
  DfsLoopStep(RunCells)

\* The dfs loop with the scorers returning any value of the scale.
DfsLoopAnyScore ==
  DfsLoopStep(Cells)

(***************************************************************************)
(* The means cell: the aggregator.                                         *)
(***************************************************************************)
RECURSIVE SumNum(_)
SumNum(col) ==
  IF col = << >> THEN 0 ELSE Head(col).num + SumNum(Tail(col))

\* Variant: NaN cells are counted as zeros (fillna(0) before the mean).
MeanFillna0(col) ==
  IF Len(col) = 0 THEN NaN
  ELSE Reduced(SumNum(SelectSeq(col, LAMBDA c : ~c.isnan)), Len(col))

\* Variant: a column with no valid cell has the mean zero.
MeanEmptyIsZero(col) ==
  LET valid == SelectSeq(col, LAMBDA c : ~c.isnan)
  IN IF Len(valid) = 0 THEN Float(0, 1) ELSE Reduced(SumNum(valid), Len(valid))

\* Series.mean() with skipna=True: the mean of the cells that are not NaN,
\* and NaN when there is none.
Mean(col) ==
  LET valid == SelectSeq(col, LAMBDA c : ~c.isnan)
  IN IF Len(valid) = 0 THEN NaN ELSE Reduced(SumNum(valid), Len(valid))

Column(df, c) ==
  [q \in 1..Len(df) |-> df[q].scores[c]]

\* df[numeric_cols].mean()
ColumnMeans(df) ==
  [c \in {numeric_cols[j] : j \in 1..Len(numeric_cols)} |-> Mean(Column(df, c))]

\* next((kb['name'] for kb in kbs if kb['knowledgeBaseId'] == key), 'Unknown')
KbName(key) ==
  LET J == {j \in 1..Len(kbs) : kbs[j].knowledgeBaseId = key}
  IN IF J = {} THEN "Unknown"
     ELSE kbs[CHOOSE j \in J : \A r \in J : j <= r].name

\* "for key, df in dfs.items(): means.append(df[numeric_cols].mean())"
RECURSIVE MeansLoop(_, _)
MeansLoop(items, acc) ==
  IF items = << >> THEN acc
  ELSE MeansLoop(Tail(items), Append(acc, ColumnMeans(Head(items).value)))

\* "for key, df in dfs.items(): ... kb_names.append(kb_name)"
RECURSIVE NamesLoop(_, _)
NamesLoop(items, acc) ==
  IF items = << >> THEN acc
  ELSE NamesLoop(Tail(items), Append(acc, KbName(Head(items).key)))

\* Variant: the cell appends to the list an earlier run left behind.
MeansAfterCellAppend(before, items) ==
  MeansLoop(items, before)

\* The list means after the cell: the cell starts it empty (means = []).
MeansAfterCell(before, items) ==
  MeansLoop(items, << >>)

\* The list kb_names after the cell: the cell starts it empty (kb_names = []).
KbNamesAfterCell(before, items) ==
  NamesLoop(items, << >>)

\* means_df.index.map(display_names): a label that is no key maps to NaN.
MapIndex(label) ==
  IF label \in DOMAIN display_names THEN display_names[label] ELSE "NaN"

\* pd.DataFrame(means, columns=numeric_cols, index=kb_names) with its index
\* mapped to the display names: one row per entry of means.
MeansDf(ms, names) ==
  [j \in 1..Len(ms) |-> [label |-> MapIndex(names[j]), mean |-> ms[j]]]

\* Variant: the backends are listed last to first.
plot_df1_reversed(mdf) ==
  [c \in {numeric_cols[j] : j \in 1..Len(numeric_cols)} |->
     [j \in 1..Len(mdf) |->
        [label |-> mdf[Len(mdf) + 1 - j].label,
         value |-> mdf[Len(mdf) + 1 - j].mean[c]]]]

\* plot_df1 = means_df.iloc[:, :6].T: one row per metric, holding one entry
\* per backend in the order of the rows of means_df.  This is what the bar
\* chart shows, group by group.
plot_df1(mdf) ==
  [c \in {numeric_cols[j] : j \in 1..Len(numeric_cols)} |->
     [j \in 1..Len(mdf) |-> [label |-> mdf[j].label, value |-> mdf[j].mean[c]]]]

\* What one execution of the means cell does to the state.  pd.DataFrame
\* raises ValueError when the index and the data differ in length.
ExecuteMeansCell ==
  /\ means' = MeansAfterCell(means, dfs)
  /\ kb_names' = KbNamesAfterCell(kb_names, dfs)
  /\ summaries' = IF summaries = "never" THEN "once" ELSE "again"
  /\ IF Len(means') = Len(kb_names')
       THEN /\ means_df' = MeansDf(means', kb_names')
            /\ pc' = "done"
            /\ UNCHANGED error
       ELSE /\ pc' = "raised"
            /\ error' = [kind |-> "ValueError", kb |-> 0, q |-> 0, metric |-> ""]
            /\ UNCHANGED means_df
  /\ UNCHANGED <<i, datasets, dfs, retrieved, generated, scored, frame,
                 embedded>>

\* The means cell, as the run executes it after the dfs loop.
MeansCell ==
  /\ pc = "means_cell"
  /\ ExecuteMeansCell

\* The means cell executed again by hand, any number of times, on the result
\* table as it stands.
MeansCellAgain ==
  /\ pc = "done"
  /\ ExecuteMeansCell

(***************************************************************************)
(* The run.                                                                *)
(***************************************************************************)
Init ==
  /\ pc = "datasets_loop"
  /\ i = 1
  /\ datasets = << >>
  /\ dfs = << >>
  /\ means = << >>
  /\ kb_names = << >>
  /\ means_df = << >>
  /\ retrieved = [k \in KbIndex |-> [q \in QuestionIndex |-> "not_called"]]
  /\ generated = [k \in KbIndex |-> [q \in QuestionIndex |-> "not_called"]]
  /\ scored = [k \in KbIndex |-> << >>]
  /\ error = NoError
  /\ summaries = "never"
  /\ frame = NoFrame
  /\ embedded = [k \in KbIndex |-> "not_called"]

Next ==
  \/ DatasetsLoop
  \/ DfsLoop
  \/ MeansCell

Spec == Init /\ [][Next]_vars

\* Each cell's steps are taken as long as the run has not stopped: the kernel
\* executes a running cell to its end.
FairSpec == Spec /\ WF_vars(Next)

(***************************************************************************)
(* The aggregator on every result table: the run from the end of a         *)
(* datasets loop in which every invocation returned documents and an       *)
(* answer, with the scorers returning any value of the scale, and the      *)
(* means cell run on the table and run again.                              *)
(***************************************************************************)
HealthyData(k) ==
  ExecuteRagData(k, [q \in QuestionIndex |-> "docs"])

InitSummary ==
  /\ pc = "dfs_loop"
  /\ i = 1
  /\ datasets = [k \in KbIndex |->
                   [key |-> kbs[k].knowledgeBaseId, value |-> HealthyData(k)]]
  /\ dfs = << >>
  /\ means = << >>
  /\ kb_names = << >>
  /\ means_df = << >>
  /\ retrieved = [k \in KbIndex |-> [q \in QuestionIndex |-> "docs"]]
  /\ generated = [k \in KbIndex |-> [q \in QuestionIndex |-> "answered"]]
  /\ scored = [k \in KbIndex |-> << >>]
  /\ error = NoError
  /\ summaries = "never"
  /\ frame = NoFrame
  /\ embedded = [k \in KbIndex |-> "not_called"]

NextSummary ==
  \/ DfsLoopAnyScore
  \/ MeansCell
  \/ MeansCellAgain

SpecSummary == InitSummary /\ [][NextSummary]_vars

(***************************************************************************)
(* The run followed from one external call to the next: execute_rag stops  *)
(* at every retrieval and every generation call of qa_chain.invoke, and    *)
(* evaluate at every scorer invocation, of which it runs max_workers at a  *)
(* time.                                                                   *)
(***************************************************************************)
\* The position of metric m in the list metrics.
MetricPos(m) ==
  CHOOSE j \in 1..Len(metrics) : metrics[j] = m

\* evaluate submits one scorer invocation per row and metric, row by row, and
\* reads the result of (row q, metric m) at position len(metrics) * q + m of
\* the result list (counted from 1 here).
JobOf(q, m) ==
  Len(metrics) * (q - 1) + MetricPos(m)

JobRow(j) ==
  ((j - 1) \div Len(metrics)) + 1

JobMetric(j) ==
  metrics[((j - 1) % Len(metrics)) + 1]

\* The number of scorer invocations in flight.
Running(jobs) ==
  Cardinality({j \in DOMAIN jobs : jobs[j] = "running"})

\* Variant: evaluate called without run_config bounds nothing here.
WorkerFreeAlways(running) ==
  TRUE

\* A worker is free to take the next scorer invocation.
WorkerFree(running) ==
  running < max_workers

\* Variant: the results are collected in the order of completion.
StoreResultInCompletionOrder(jobs, results, j, cell) ==
  [results EXCEPT ![Cardinality({x \in DOMAIN jobs : jobs[x] = "done"}) + 1] = cell]

\* The result of invocation j is stored at position j of the result list,
\* whenever it completes.
StoreResult(jobs, results, j, cell) ==
  [results EXCEPT ![j] = cell]

\* Variant: an invocation whose scorer failed is queued again.
JobRetriedOnFailure(cell) ==
  IF cell.isnan THEN "pending" ELSE "done"

\* An invocation that returned is done, with a value or with a captured
\* failure.
JobAfterScorer(cell) ==
  "done"

\* Variant: the loop catches the interrupt and goes on.
AfterInterruptSwallowed(p) ==
  p

\* KeyboardInterrupt is caught by no cell: it stops the run like any
\* exception.
AfterInterrupt(p) ==
  "raised"

\* Variant: a retrieval that returns no document fails the invocation.
RetrievalFailsOnEmpty(ret) ==
  ret \in {"raised", "empty"}

\* qa_chain.invoke fails in its retrieval only when the retriever raises: an
\* empty list of documents is passed on to the generation like any other.
RetrievalFails(ret) ==
  ret = "raised"

\* Variant: the contexts of a question are appended only when there are
\* some.
AppendContextsIfAny(contexts, docs) ==
  IF docs.len = 0 THEN contexts ELSE Append(contexts, docs)

\* contexts.append([docs.page_content for docs in ...]): one entry per
\* question, empty or not.
AppendContexts(contexts, docs) ==
  Append(contexts, docs)

\* execute_rag(retrievers[i]) is called and makes the retrieval call of the
\* first question.
ExecuteRagCall ==
  /\ pc = "datasets_loop"
  /\ frame.fn = "none"
  /\ frame' = [fn |-> "execute_rag", q |-> 1, call |-> "retrieval",
               docs |-> "not_called", answers |-> << >>, contexts |-> << >>]
  /\ retrieved' = [retrieved EXCEPT ![i][1] = "in_flight"]
  /\ UNCHANGED <<pc, i, datasets, dfs, means, kb_names, means_df, generated,
                 scored, error, summaries, embedded>>

\* The retrieval call in flight returns documents or none, and the
\* generation call is made; or it raises out of execute_rag.
RetrievalReturns ==
  /\ pc = "datasets_loop"
  /\ frame.fn = "execute_rag"
  /\ frame.call = "retrieval"
  /\ \E ret \in RetrievalOutcomes :
       /\ retrieved' = [retrieved EXCEPT ![i][frame.q] = ret]
       /\ IF RetrievalFails(ret)
            THEN /\ pc' = "raised"
                 /\ error' = [kind |-> "retrieval", kb |-> i, q |-> frame.q,
                              metric |-> ""]
                 /\ frame' = NoFrame
                 /\ UNCHANGED generated
            ELSE /\ frame' = [frame EXCEPT !.call = "generation", !.docs = ret]
                 /\ generated' = [generated EXCEPT ![i][frame.q] = "in_flight"]
                 /\ UNCHANGED <<pc, error>>
  /\ UNCHANGED <<i, datasets, dfs, means, kb_names, means_df, scored, summaries,
                 embedded>>

\* The generation call in flight returns: the answer and the contexts of the
\* question are appended, and either the retrieval call of the next question
\* is made, or execute_rag returns and datasets[kb_id] is set; or the call
\* raises out of execute_rag.
GenerationReturns ==
  /\ pc = "datasets_loop"
  /\ frame.fn = "execute_rag"
  /\ frame.call = "generation"
  /\ \E gen \in GenerationOutcomes :
       /\ generated' = [generated EXCEPT ![i][frame.q] = gen]
       /\ IF gen = "raised"
            THEN /\ pc' = "raised"
                 /\ error' = [kind |-> "generation", kb |-> i, q |-> frame.q,
                              metric |-> ""]
                 /\ frame' = NoFrame
                 /\ UNCHANGED <<i, datasets, retrieved>>
            ELSE LET answers == Append(frame.answers, Result(i, frame.q))
                     contexts == AppendContexts(frame.contexts,
                                   SourceDocuments(i, frame.q, frame.docs))
                     kb_id == retrievers[i].knowledge_base_id
                     data == [question |-> questions, answer |-> answers,
                              contexts |-> contexts,
                              ground_truth |-> ground_truth]
                 IN IF frame.q < Len(questions)
                      THEN /\ frame' = [frame EXCEPT !.q = @ + 1,
                                                     !.call = "retrieval",
                                                     !.docs = "not_called",
                                                     !.answers = answers,
                                                     !.contexts = contexts]
                           /\ retrieved' =
                                [retrieved EXCEPT ![i][frame.q + 1] = "in_flight"]
                           /\ UNCHANGED <<pc, i, datasets, error>>
                      ELSE /\ datasets' = DictSet(datasets, kb_id, data)
                           /\ frame' = NoFrame
                           /\ IF i < Len(retrievers)
                                THEN /\ i' = i + 1
                                     /\ pc' = pc
                                ELSE /\ i' = 1
                                     /\ pc' = "dfs_loop"
                           /\ UNCHANGED <<retrieved, error>>
  /\ UNCHANGED <<dfs, means, kb_names, means_df, scored, summaries, embedded>>

\* evaluate_kb(kbs[i], ...) is called: datasets[kb_id] raises KeyError for a
\* missing key; otherwise evaluate queues one scorer invocation per row and
\* metric, its result list filled with NaN.
EvaluateCall ==
  /\ pc = "dfs_loop"
  /\ frame.fn = "none"
  /\ IF ~DictHas(datasets, kbs[i].knowledgeBaseId)
       THEN /\ pc' = "raised"
            /\ error' = [kind |-> "KeyError", kb |-> i, q |-> 0, metric |-> ""]
            /\ UNCHANGED <<frame, embedded>>
       ELSE LET rows == Len(DictGet(datasets, kbs[i].knowledgeBaseId).question)
                J == 1..(rows * Len(metrics))
            IN /\ frame' = [fn |-> "evaluate",
                            jobs |-> [j \in J |-> "pending"],
                            invocations |-> [j \in J |-> 0],
                            results |-> [j \in J |-> NaN],
                            produced |-> [j \in J |-> NaN]]
               /\ embedded' = [embedded EXCEPT ![i] = bedrock_embeddings[i]]
               /\ UNCHANGED <<pc, error>>
  /\ UNCHANGED <<i, datasets, dfs, means, kb_names, means_df, retrieved,
                 generated, scored, summaries>>

\* A free worker takes a queued scorer invocation.
ScorerStarts ==
  /\ pc = "dfs_loop"
  /\ frame.fn = "evaluate"
  /\ \E j \in DOMAIN frame.jobs :
       /\ frame.jobs[j] = "pending"
       /\ WorkerFree(Running(frame.jobs))
       /\ frame' = [frame EXCEPT !.jobs[j] = "running", !.invocations[j] = @ + 1]
  /\ UNCHANGED <<pc, i, datasets, dfs, means, kb_names, means_df, retrieved,
                 generated, scored, error, summaries, embedded>>

\* A scorer invocation in flight ends: with a value or a failure the library
\* captures as NaN, stored in the result list, and when it was the last one
\* evaluate returns, evaluate_kb returns result.to_pandas() and dfs[kb_id] is
\* set; or with a failure that raises out of evaluate.
ScorerReturns ==
  /\ pc = "dfs_loop"
  /\ frame.fn = "evaluate"
  /\ \E j \in DOMAIN frame.jobs :
       /\ frame.jobs[j] = "running"
       /\ \/ \E cell \in RunCells :
               LET jobs == [frame.jobs EXCEPT ![j] = JobAfterScorer(cell)]
                   results == StoreResult(frame.jobs, frame.results, j, cell)
                   produced == [frame.produced EXCEPT ![j] = cell]
                   rows == Len(frame.jobs) \div Len(metrics)
               IN /\ IF \A x \in DOMAIN jobs : jobs[x] = "done"
                       THEN LET out == [q \in 1..rows |->
                                          [m \in MetricSet |-> results[JobOf(q, m)]]]
                                r == EvaluateKb(kbs[i], bedrock_embeddings[i],
                                                datasets, out)
                            IN /\ dfs' = DictSet(dfs, r.kb_id, r.df)
                               /\ scored' =
                                    [scored EXCEPT ![i] =
                                       Append(@, [q \in 1..rows |->
                                                    [m \in MetricSet |->
                                                       produced[JobOf(q, m)]]])]
                               /\ frame' = NoFrame
                               /\ IF i < Len(kbs)
                                    THEN /\ i' = i + 1
                                         /\ pc' = pc
                                    ELSE /\ i' = 1
                                         /\ pc' = "means_cell"
                       ELSE /\ frame' = [frame EXCEPT !.jobs = jobs,
                                                      !.results = results,
                                                      !.produced = produced]
                            /\ UNCHANGED <<pc, i, dfs, scored>>
                  /\ UNCHANGED error
          \/ /\ pc' = "raised"
             /\ error' = [kind |-> "scorer", kb |-> i, q |-> JobRow(j),
                          metric |-> JobMetric(j)]
             /\ frame' = NoFrame
             /\ UNCHANGED <<i, dfs, scored>>
  /\ UNCHANGED <<datasets, means, kb_names, means_df, retrieved, generated,
                 summaries, embedded>>

\* The kernel is interrupted while one of the two loops runs: Python raises
\* KeyboardInterrupt in the running cell, the locals of the call in progress
\* are lost, and what the abandoned calls still do reaches the notebook no
\* more.
Interrupt ==
  /\ pc \in {"datasets_loop", "dfs_loop"}
  /\ error.kind # "KeyboardInterrupt"
  /\ pc' = AfterInterrupt(pc)
  /\ error' = [kind |-> "KeyboardInterrupt", kb |-> i, q |-> 0, metric |-> ""]
  /\ frame' = NoFrame
  /\ UNCHANGED <<i, datasets, dfs, means, kb_names, means_df, retrieved,
                 generated, scored, summaries, embedded>>

NextCalls ==
  \/ ExecuteRagCall
  \/ RetrievalReturns
  \/ GenerationReturns
  \/ EvaluateCall
  \/ ScorerStarts
  \/ ScorerReturns
  \/ MeansCell

SpecCalls == Init /\ [][NextCalls]_vars

\* The run with a kernel interrupt that can arrive at any moment of the two
\* loops.
NextInterrupt ==
  \/ NextCalls
  \/ Interrupt

SpecInterrupt == Init /\ [][NextInterrupt]_vars

(***************************************************************************)
(* Vocabulary of the properties.                                           *)
(***************************************************************************)
\* The record of question q on backend k was built: its invocation returned.
RecordBuilt(k, q) ==
  generated[k][q] = "answered"

\* The build of the record of question q on backend k failed.
BuildFailed(k, q) ==
  retrieved[k][q] = "raised" \/ generated[k][q] = "raised"

\* The pair (k, q) was attempted: its retrieval call was made.
Attempted(k, q) ==
  retrieved[k][q] # "not_called"

\* The rows of the result table that belong to question q of backend k.
RowsOf(k, q) ==
  IF DictHas(dfs, kbs[k].knowledgeBaseId)
    THEN LET df == DictGet(dfs, kbs[k].knowledgeBaseId)
         IN {r \in 1..Len(df) : df[r].question.n = q}
    ELSE {}

\* The number of cells the result table holds for (k, q, m).
CellsFor(k, q, m) ==
  IF DictHas(dfs, kbs[k].knowledgeBaseId)
    THEN LET df == DictGet(dfs, kbs[k].knowledgeBaseId)
         IN Cardinality({r \in 1..Len(df) :
                           df[r].question.n = q /\ m \in DOMAIN df[r].scores})
    ELSE 0

\* The cell of (k, q, m), when there is exactly one.
CellValue(k, q, m) ==
  DictGet(dfs, kbs[k].knowledgeBaseId)[CHOOSE r \in RowsOf(k, q) : TRUE].scores[m]

\* The number of cells of the whole result table.
CellCount ==
  Cardinality({t \in (1..Len(dfs)) \X QuestionIndex \X MetricSet :
                 /\ t[2] <= Len(dfs[t[1]].value)
                 /\ t[3] \in DOMAIN dfs[t[1]].value[t[2]].scores})

\* The number of cells of the whole result table that hold a value.
SuccessfulCellCount ==
  Cardinality({t \in (1..Len(dfs)) \X QuestionIndex \X MetricSet :
                 /\ t[2] <= Len(dfs[t[1]].value)
                 /\ t[3] \in DOMAIN dfs[t[1]].value[t[2]].scores
                 /\ ~dfs[t[1]].value[t[2]].scores[t[3]].isnan})

\* The scorer of m was invoked on the record (k, q) and evaluate returned.
Scored(k, q, m) ==
  Len(scored[k]) > 0

\* The scorer of m failed on the record (k, q) and the library captured it.
ScorerFailureCaptured(k, q, m) ==
  Len(scored[k]) > 0 /\ scored[k][1][q][m].isnan

\* The scorer of m failed on the record (k, q) and evaluate raised.
ScorerFailureRaised(k, q, m) ==
  error = [kind |-> "scorer", kb |-> k, q |-> q, metric |-> m]

\* The datasets loop and the dfs loop are over, or an exception stopped them.
RunFinished ==
  pc \in {"means_cell", "done", "raised"}

\* The datasets loop and the dfs loop ran to their end.
RunCompleted ==
  pc \in {"means_cell", "done"}

FullCellCount ==
  Len(kbs) * NumQuestions * Len(metrics)

Healthy(k) ==
  \A q \in QuestionIndex : ~BuildFailed(k, q)

SomeCallRaised ==
  \/ \E k \in KbIndex, q \in QuestionIndex : BuildFailed(k, q)
  \/ error.kind = "scorer"

TableOfKb(k) ==
  DictGet(dfs, kbs[k].knowledgeBaseId)

\* The rows of backend k whose cell for metric c holds a value.
SuccessfulRows(k, c) ==
  LET df == TableOfKb(k)
  IN {r \in 1..Len(df) : ~df[r].scores[c].isnan}

\* The rows of backend k whose cell for metric c is an error cell.
ErrorRows(k, c) ==
  LET df == TableOfKb(k)
  IN {r \in 1..Len(df) : df[r].scores[c].isnan}

\* The sum of the cells of column c of the frame df over the rows R.
RECURSIVE ValueSum(_, _, _)
ValueSum(df, c, R) ==
  IF R = {} THEN 0
  ELSE LET r == CHOOSE x \in R : TRUE
       IN df[r].scores[c].num + ValueSum(df, c, R \ {r})

\* The float x is the arithmetic mean of the successful cells of (k, c).
IsMeanOfSuccessfulCells(x, k, c) ==
  LET df == TableOfKb(k)
      S == {r \in 1..Len(df) : ~df[r].scores[c].isnan}
  IN IF S = {}
       THEN x = NaN
       ELSE /\ ~x.isnan
            /\ x.den > 0
            /\ x.num * Cardinality(S) = ValueSum(df, c, S) * x.den

\* a >= b for two floats that are numbers.
Geq(a, b) ==
  a.num * b.den >= b.num * a.den

(***************************************************************************)
(* C6.                                                                     *)
(***************************************************************************)
\* C6: for every backend and metric with no successful cell the summary
\* holds NaN, the no-data marker, which no numeric mean equals (0.0 in
\* particular); with a successful cell it holds a number.
C6_NoDataIsNaN ==
  pc = "done" =>
    /\ Len(means_df) = Len(kbs)
    /\ \A k \in KbIndex, c \in MetricSet :
         /\ SuccessfulRows(k, c) = {} =>
              means_df[k].mean[c] = NaN /\ means_df[k].mean[c] # Float(0, 1)
         /\ SuccessfulRows(k, c) # {} => ~means_df[k].mean[c].isnan

\* One (backend, metric) has no successful cell and another has the numeric
\* mean 0.0.
C6_Witness ==
  /\ pc = "done"
  /\ \E k \in KbIndex, c \in MetricSet :
       SuccessfulRows(k, c) = {} /\ means_df[k].mean[c] = NaN
  /\ \E k \in KbIndex, c \in MetricSet :
       SuccessfulRows(k, c) # {} /\ means_df[k].mean[c] = Float(0, 1)

C8_SummariseIsPure ==
  [][ (pc \in {"means_cell", "done"}) =>
        ( /\ dfs' = dfs
          /\ (summaries # "never") =>
               (means' = means /\ kb_names' = kb_names /\ means_df' = means_df) )
    ]_vars

\* The means cell has run twice on a table with values and failures.
C8_Witness ==
  /\ summaries = "again"
  /\ pc = "done"
  /\ means_df # << >>
  /\ \E k \in KbIndex, c \in MetricSet :
       ErrorRows(k, c) # {} /\ SuccessfulRows(k, c) # {}

(***************************************************************************)
(* C9.                                                                     *)
(***************************************************************************)
\* C9, as stated: for each metric the comparison view lists the backends in
\* descending order of their mean.
C9_Original ==
  pc = "done" =>
    LET view == plot_df1(means_df)
    IN \A c \in MetricSet :
         \A j1 \in 1..Len(view[c]), j2 \in 1..Len(view[c]) :
           (j1 < j2 /\ ~view[c][j1].value.isnan /\ ~view[c][j2].value.isnan)
           => Geq(view[c][j1].value, view[c][j2].value)

\* C9, amended: for each metric the comparison view lists the backends in
\* their registration order (their order in kbs) whatever their means, so
\* two backends with equal means appear in registration order too; the order
\* is the same on every repeated run over the same result table.
C9_ViewInRegistrationOrder ==
  pc = "done" =>
    LET view == plot_df1(means_df)
    IN \A c \in MetricSet :
         /\ Len(view[c]) = Len(kbs)
         /\ \A k \in KbIndex :
              /\ view[c][k].label = MapIndex(kbs[k].name)
              /\ IsMeanOfSuccessfulCells(view[c][k].value, k, c)

\* The view of one metric lists a lower mean before a higher one, and the
\* view of another lists two equal means.
C9_Witness ==
  /\ pc = "done"
  /\ summaries = "again"
  /\ LET view == plot_df1(means_df)
     IN /\ \E c \in MetricSet :
             /\ ~view[c][1].value.isnan
             /\ ~view[c][2].value.isnan
             /\ ~Geq(view[c][1].value, view[c][2].value)
        /\ \E c \in MetricSet :
             /\ ~view[c][1].value.isnan
             /\ view[c][1].value = view[c][2].value

(***************************************************************************)
(* Vocabulary of the properties of the calls in flight.                    *)
(***************************************************************************)
\* evaluate has returned for backend k.
Evaluated(k) ==
  Len(scored[k]) > 0

RetrievalsInFlight ==
  IF frame.fn = "execute_rag" /\ frame.call = "retrieval" THEN 1 ELSE 0

GenerationsInFlight ==
  IF frame.fn = "execute_rag" /\ frame.call = "generation" THEN 1 ELSE 0

ScoringsInFlight ==
  IF frame.fn = "evaluate" THEN Running(frame.jobs) ELSE 0

CallsInFlight ==
  RetrievalsInFlight + GenerationsInFlight + ScoringsInFlight

(***************************************************************************)
(* C11.                                                                    *)
(***************************************************************************)
\* C11: whatever the order in which the scorer invocations of evaluate
\* complete, the result list holds at the position of every completed
\* invocation what that invocation produced, and once evaluate has returned
\* for a backend the table holds exactly one cell per (question, metric) of
\* it, keyed by the question and the metric of the invocation and holding
\* what that invocation produced.
C11_TableIndependentOfCompletionOrder ==
  /\ frame.fn = "evaluate" =>
       \A j \in DOMAIN frame.jobs :
         frame.jobs[j] = "done" => frame.results[j] = frame.produced[j]
  /\ \A k \in KbIndex :
       Evaluated(k) =>
         \A q \in QuestionIndex, m \in MetricSet :
           /\ CellsFor(k, q, m) = 1
           /\ CellValue(k, q, m) = scored[k][1][q][m]

\* The first backend is evaluated, with a value and a failed cell in its
\* table in the order the invocations were queued, and in the evaluation of
\* the second a later invocation has completed with a value before an earlier
\* one has.
C11_Witness ==
  /\ Evaluated(1)
  /\ CellValue(1, 1, metrics[1]) = NaN
  /\ CellValue(1, 1, metrics[2]) = Float(1, 1)
  /\ frame.fn = "evaluate"
  /\ \E j1 \in DOMAIN frame.jobs, j2 \in DOMAIN frame.jobs :
       /\ j1 < j2
       /\ frame.jobs[j1] # "done"
       /\ frame.jobs[j2] = "done"
       /\ frame.results[j2] = Float(1, 1)

(***************************************************************************)
(* C12.                                                                    *)
(***************************************************************************)
\* C12: in every state of the run the retrieval, generation and scoring calls
\* in flight, counted together, are at most max_workers, the configured
\* limit; the retrieval and generation calls are made one at a time and
\* never while a scorer runs.
C12_CallsInFlightWithinLimit ==
  /\ CallsInFlight <= max_workers
  /\ RetrievalsInFlight + GenerationsInFlight <= 1
  /\ ScoringsInFlight > 0 => RetrievalsInFlight + GenerationsInFlight = 0

\* As many scorer invocations are in flight as the limit allows, with more
\* queued behind them.
C12_Witness ==
  /\ frame.fn = "evaluate"
  /\ ScoringsInFlight = max_workers
  /\ \E j \in DOMAIN frame.jobs : frame.jobs[j] = "pending"

(***************************************************************************)
(* C13.                                                                    *)
(***************************************************************************)
\* The interrupt arrives in this step.
InterruptArrives ==
  error.kind # "KeyboardInterrupt" /\ error'.kind = "KeyboardInterrupt"

CallEnded(log, k, q) ==
  log[k][q] \notin {"not_called", "in_flight"}

\* The dataset stored for backend k holds, row by row, the record the one
\* invocation of (k, q) built.
DatasetAsBuilt(k) ==
  LET data == DictGet(datasets, kbs[k].knowledgeBaseId)
  IN /\ Len(data.question) = NumQuestions
     /\ Len(data.answer) = NumQuestions
     /\ Len(data.contexts) = NumQuestions
     /\ Len(data.ground_truth) = NumQuestions
     /\ \A q \in QuestionIndex :
          /\ RecordBuilt(k, q)
          /\ data.question[q] = questions[q]
          /\ data.answer[q] = Result(k, q)
          /\ data.contexts[q] = SourceDocuments(k, q, retrieved[k][q])
          /\ data.ground_truth[q] = ground_truth[q]

\* In this step no call that ended is made again and no stored dataset is
\* changed or removed.
RecordsKept ==
  /\ \A k \in KbIndex, q \in QuestionIndex :
       /\ CallEnded(retrieved, k, q) => retrieved'[k][q] = retrieved[k][q]
       /\ CallEnded(generated, k, q) => generated'[k][q] = generated[k][q]
       /\ (retrieved'[k][q] = "in_flight" /\ retrieved[k][q] # "in_flight") =>
            retrieved[k][q] = "not_called"
       /\ (generated'[k][q] = "in_flight" /\ generated[k][q] # "in_flight") =>
            generated[k][q] = "not_called"
  /\ \A k \in KbIndex :
       DictHas(datasets, kbs[k].knowledgeBaseId) =>
         /\ DictHas(datasets', kbs[k].knowledgeBaseId)
         /\ DictGet(datasets', kbs[k].knowledgeBaseId) =
              DictGet(datasets, kbs[k].knowledgeBaseId)

ExecuteRagReturned(k) ==
  \A q \in QuestionIndex : RecordBuilt(k, q)

\* The keys of the dict d are pairwise distinct.
DistinctKeys(d) ==
  \A j1 \in 1..Len(d), j2 \in 1..Len(d) : d[j1].key = d[j2].key => j1 = j2

\* C16: datasets holds as many entries as execute_rag returned, dfs as many
\* tables as evaluate_kb returned, and the table as many cells as those
\* evaluations had invocations, all under distinct keys; while an evaluation
\* runs, every invocation that is done has its result at its own position
\* and every other position is untouched.
C16_EveryInsertStored ==
  /\ Len(datasets) = Cardinality({k \in KbIndex : ExecuteRagReturned(k)})
  /\ DistinctKeys(datasets)
  /\ \A k \in KbIndex : Len(scored[k]) <= 1
  /\ Len(dfs) = Cardinality({k \in KbIndex : Evaluated(k)})
  /\ DistinctKeys(dfs)
  /\ CellCount = Len(dfs) * NumQuestions * Len(metrics)
  /\ frame.fn = "evaluate" =>
       \A j \in DOMAIN frame.jobs :
         frame.results[j] =
           IF frame.jobs[j] = "done" THEN frame.produced[j] ELSE NaN

\* Every insert of a completed run is stored: two datasets, two tables and
\* every cell, values and failures among them.
C16_Witness ==
  /\ RunCompleted
  /\ Len(datasets) = Len(kbs)
  /\ Len(dfs) = Len(kbs)
  /\ CellCount = FullCellCount
  /\ SuccessfulCellCount > 0
  /\ SuccessfulCellCount < CellCount

(***************************************************************************)
(* C17.                                                                    *)
(***************************************************************************)
\* C17, as stated: a retrieval that returns zero contexts fails the build of
\* the record with a retrieval error, and no generation call is made for
\* that question.
C17_Original ==
  \A k \in KbIndex, q \in QuestionIndex :
    retrieved[k][q] = "empty" =>
      /\ generated[k][q] = "not_called"
      /\ pc = "raised"
      /\ error.kind = "retrieval" /\ error.kb = k /\ error.q = q

\* C17, amended: a retrieval that returns zero contexts is no failure: the
\* generation call is made for that question all the same and no retrieval
\* error is raised for it; when the backend's dataset is stored the record
\* stands in it with an empty context list, and when the backend is
\* evaluated the record has a cell for every metric like any other.
C17_EmptyRetrievalIsBuiltAndScored ==
  \A k \in KbIndex, q \in QuestionIndex :
    retrieved[k][q] = "empty" =>
      /\ generated[k][q] # "not_called"
      /\ ~(error.kind = "retrieval" /\ error.kb = k /\ error.q = q)
      /\ DictHas(datasets, kbs[k].knowledgeBaseId) =>
           LET data == DictGet(datasets, kbs[k].knowledgeBaseId)
           IN /\ data.contexts[q].len = 0
              /\ data.answer[q] = Result(k, q)
      /\ Evaluated(k) =>
           \A m \in MetricSet : CellsFor(k, q, m) = 1

\* A record whose retrieval returned nothing has been built and scored, with
\* a value in one of its cells.
C17_Witness ==
  \E k \in KbIndex, q \in QuestionIndex, m \in MetricSet :
    /\ retrieved[k][q] = "empty"
    /\ RecordBuilt(k, q)
    /\ Evaluated(k)
    /\ DictGet(datasets, kbs[k].knowledgeBaseId).contexts[q].len = 0
    /\ CellsFor(k, q, m) = 1
    /\ CellValue(k, q, m) = Float(1, 1)

(***************************************************************************)
(* C18.                                                                    *)
(***************************************************************************)
\* The answer and the contexts at position n of the lists answers and
\* contexts come from the invocation made on backend k for the question at
\* position n.
AlignedAt(k, n, answers, contexts) ==
  /\ answers[n].kb = k /\ answers[n].q = questions[n].n
  /\ contexts[n].kb = k /\ contexts[n].q = questions[n].n
  /\ contexts[n].len = IF retrieved[k][n] = "docs" THEN numberOfResults ELSE 0

\* C18: whenever execute_rag has returned for a backend, the four columns of
\* its dataset have the length of questions, and at every position the answer
\* and the contexts come from the one invocation made for the question at
\* that position and stand next to the ground truth of that question; while
\* execute_rag runs, its lists answers and contexts grow together, one entry
\* per question invoked so far; a failed invocation returns no dataset.
C18_ColumnsAligned ==
  /\ \A k \in KbIndex :
       DictHas(datasets, kbs[k].knowledgeBaseId) =>
         LET data == DictGet(datasets, kbs[k].knowledgeBaseId)
         IN /\ Len(data.question) = Len(questions)
            /\ Len(data.answer) = Len(data.question)
            /\ Len(data.contexts) = Len(data.question)
            /\ Len(data.ground_truth) = Len(data.question)
            /\ \A n \in 1..Len(data.question) :
                 /\ data.question[n] = questions[n]
                 /\ data.ground_truth[n].n = data.question[n].n
                 /\ AlignedAt(k, n, data.answer, data.contexts)
  /\ frame.fn = "execute_rag" =>
       /\ Len(frame.answers) = frame.q - 1
       /\ Len(frame.contexts) = frame.q - 1
       /\ \A n \in 1..(frame.q - 1) : AlignedAt(i, n, frame.answers, frame.contexts)
  /\ \A k \in KbIndex, q \in QuestionIndex :
       BuildFailed(k, q) => ~DictHas(datasets, kbs[k].knowledgeBaseId)

\* Both datasets are stored, the first with an empty context list before a
\* full one, the second with a full one before an empty one.
C18_Witness ==
  /\ \A k \in KbIndex : DictHas(datasets, kbs[k].knowledgeBaseId)
  /\ DictGet(datasets, kbs[1].knowledgeBaseId).contexts[1].len = 0
  /\ DictGet(datasets, kbs[1].knowledgeBaseId).contexts[NumQuestions].len
       = numberOfResults
  /\ DictGet(datasets, kbs[2].knowledgeBaseId).contexts[1].len = numberOfResults
  /\ DictGet(datasets, kbs[2].knowledgeBaseId).contexts[NumQuestions].len = 0

(***************************************************************************)
(* C19.                                                                    *)
(***************************************************************************)
\* The dataset of backend k.
DatasetOfKb(k) ==
  DictGet(datasets, kbs[k].knowledgeBaseId)

\* C19: any two backends whose datasets are stored were built from the same
\* questions in the same order, with the same ground truths and the same
\* generation model, their datasets holding the same four columns and
\* differing in the answer and contexts columns only; any two backends that
\* are evaluated have, row by row, cells for the same metrics, those of the
\* list metrics, and an evaluation in progress has one invocation per row
\* and metric of that list.
C19_SamePipelineForEveryBackend ==
  /\ \A k1 \in KbIndex, k2 \in KbIndex :
       ( /\ DictHas(datasets, kbs[k1].knowledgeBaseId)
         /\ DictHas(datasets, kbs[k2].knowledgeBaseId) ) =>
         /\ DOMAIN DatasetOfKb(k1) = {"question", "answer", "contexts", "ground_truth"}
         /\ DOMAIN DatasetOfKb(k1) = DOMAIN DatasetOfKb(k2)
         /\ DatasetOfKb(k1).question = DatasetOfKb(k2).question
         /\ DatasetOfKb(k1).question = questions
         /\ DatasetOfKb(k1).ground_truth = DatasetOfKb(k2).ground_truth
         /\ \A q \in QuestionIndex :
              /\ DatasetOfKb(k1).answer[q].llm = DatasetOfKb(k2).answer[q].llm
              /\ DatasetOfKb(k1).answer[q].llm = llm_for_text_generation
  /\ \A k1 \in KbIndex, k2 \in KbIndex :
       (Evaluated(k1) /\ Evaluated(k2)) =>
         /\ Len(TableOfKb(k1)) = Len(TableOfKb(k2))
         /\ \A r \in 1..Len(TableOfKb(k1)) :
              /\ TableOfKb(k1)[r].question = TableOfKb(k2)[r].question
              /\ DOMAIN TableOfKb(k1)[r].scores = DOMAIN TableOfKb(k2)[r].scores
              /\ DOMAIN TableOfKb(k1)[r].scores = MetricSet
  /\ frame.fn = "evaluate" =>
       DOMAIN frame.jobs = 1..(NumQuestions * Len(metrics))

\* Both backends are evaluated and their datasets differ in the answer and
\* the contexts columns.
C19_Witness ==
  /\ \A k \in KbIndex : Evaluated(k)
  /\ DatasetOfKb(1).answer # DatasetOfKb(2).answer
  /\ DatasetOfKb(1).contexts[1].len # DatasetOfKb(2).contexts[1].len
  /\ DatasetOfKb(1).question = DatasetOfKb(2).question

(***************************************************************************)
(* C20.                                                                    *)
(***************************************************************************)
\* The scoring of backend k has started: evaluate_kb was called for it.
ScoringStarted(k) ==
  \/ Evaluated(k)
  \/ error.kind \in {"scorer", "KeyError"} /\ error.kb = k
  \/ frame.fn = "evaluate" /\ i = k

\* C20: no evaluate_kb call finds its key missing; whenever the scoring of a
\* backend has started, every record of every backend is built and stored
\* and no retrieval or generation call is in flight, the backend's key maps
\* to the dataset built by the invocations of that same backend, and its
\* table, once there, has the rows of that dataset.
C20_ScoringAfterBuild ==
  /\ error.kind # "KeyError"
  /\ \A k \in KbIndex :
       ScoringStarted(k) =>
         /\ \A k2 \in KbIndex, q \in QuestionIndex :
              /\ RecordBuilt(k2, q)
              /\ retrieved[k2][q] \in {"empty", "docs"}
         /\ \A k2 \in KbIndex : DictHas(datasets, kbs[k2].knowledgeBaseId)
         /\ LET data == DatasetOfKb(k)
            IN /\ Len(data.answer) = NumQuestions
               /\ \A q \in QuestionIndex :
                    /\ data.answer[q].kb = k
                    /\ data.contexts[q].kb = k
               /\ Evaluated(k) =>
                    /\ Len(TableOfKb(k)) = Len(data.question)
                    /\ \A r \in 1..Len(TableOfKb(k)) :
                         TableOfKb(k)[r].question = data.question[r]

\* The evaluation of the second backend is running, a scorer in flight, on
\* the dataset its own invocations built.
C20_Witness ==
  /\ frame.fn = "evaluate"
  /\ i = 2
  /\ Running(frame.jobs) > 0
  /\ DictHas(datasets, kbs[2].knowledgeBaseId)
  /\ \A q \in QuestionIndex : DatasetOfKb(2).answer[q].kb = 2

(***************************************************************************)
(* C21.                                                                    *)
(***************************************************************************)
\* The position in kbs of the backend with the id key.
KbOfKey(key) ==
  CHOOSE k \in KbIndex : kbs[k].knowledgeBaseId = key

\* C21: every retriever is built for the backend at its position of kbs;
\* every stored dataset stands under the id of the backend whose retriever
\* built all its answers and contexts; every evaluate call made for a backend
\* got the embedding model that backend's knowledge base was created with and
\* the dataset of that backend; and when the summary is there, every row of
\* it stands at the position of its backend's table, is named and labelled
\* after that backend, and holds the means of that backend's cells, no two
\* rows sharing a label.
C21_PositionalPairingConsistent ==
  /\ \A k \in KbIndex : retrievers[k].knowledge_base_id = kbs[k].knowledgeBaseId
  /\ \A j \in 1..Len(datasets) :
       /\ \E k \in KbIndex : kbs[k].knowledgeBaseId = datasets[j].key
       /\ \A q \in QuestionIndex :
            /\ datasets[j].value.answer[q].kb = KbOfKey(datasets[j].key)
            /\ datasets[j].value.contexts[q].kb = KbOfKey(datasets[j].key)
  /\ \A k \in KbIndex :
       /\ Evaluated(k) => embedded[k] # "not_called"
       /\ embedded[k] # "not_called" =>
            /\ embedded[k] = embedding_model_of_kb[kbs[k].knowledgeBaseId]
            /\ DictHas(datasets, kbs[k].knowledgeBaseId)
            /\ \A q \in QuestionIndex : DatasetOfKb(k).answer[q].kb = k
  /\ pc = "done" =>
       /\ Len(means_df) = Len(dfs)
       /\ Len(kb_names) = Len(dfs)
       /\ \A j \in 1..Len(dfs) :
            /\ \E k \in KbIndex : kbs[k].knowledgeBaseId = dfs[j].key
            /\ kb_names[j] = kbs[KbOfKey(dfs[j].key)].name
            /\ means_df[j].label = display_names[kbs[KbOfKey(dfs[j].key)].name]
            /\ \A c \in MetricSet :
                 IsMeanOfSuccessfulCells(means_df[j].mean[c], KbOfKey(dfs[j].key), c)
       /\ \A j1 \in 1..Len(means_df), j2 \in 1..Len(means_df) :
            means_df[j1].label = means_df[j2].label => j1 = j2

\* The run is summarised: the two backends were scored with different
\* embedding models, and for one metric the first row holds no mean and the
\* second a mean, each under its backend's label.
C21_Witness ==
  /\ pc = "done"
  /\ embedded[1] = "amazon.titan-embed-text-v2:0"
  /\ embedded[2] = "cohere.embed-english-v3"
  /\ means_df[1].label = "Amazon Titan Embedding"
  /\ means_df[2].label = "Cohere English Embedding"
  /\ \E c \in MetricSet :
       /\ means_df[1].mean[c] = NaN
       /\ means_df[2].mean[c] = Float(1, 1)
       /\ SuccessfulRows(1, c) = {}
       /\ SuccessfulRows(2, c) # {}
====
